---------------------------- MODULE Spec2Model ----------------------------
(***************************************************************************)
(* Conversation stage engine of the Neo Gold chat: the reference engine    *)
(* listed in the recreation prompt (src/unnamed/part_007), the deployed    *)
(* English handler (supabase/functions/chat-with-ai) and the Portuguese    *)
(* handler (supabase/functions/chat-with-ai-pt).                           *)
(*                                                                         *)
(* A JavaScript string is a sequence of one-character strings; an optional *)
(* field of UserInfo is a sequence of length 0 (undefined) or 1 (set).     *)
(***************************************************************************)
EXTENDS Integers, Sequences, FiniteSets, TLC

VARIABLES
    handler,    \* which edge function the conversation talks to
    userInfo,   \* the lead state held by the caller between turns
    incoming,   \* the lead state the caller passed into the last turn
    message,    \* the visitor message of the last turn
    outcome,    \* "none" before the first turn, then "ok" or "error"
    instructions, \* the system prompt the last turn built, if it built one
    aiResponse, \* the generated reply the last turn returned, if it returned
    splitMessages, \* the segments splitLongMessage made of it, if it ran
    reply,      \* the response field of the last turn's response, if it returned
    requests,   \* the requests the chat client has sent, oldest first
    messages,   \* the message list of the chat window (followed in SpecClient)
    isTyping,   \* the typing indicator of the chat window
    bookedTimer, \* the label the pending booking timer will show, if one is armed
    bookedModal, \* the label the booking modal shows, once it is open
    leads       \* rows of the leads table (deployed English handler)

vars == <<handler, userInfo, incoming, message, outcome, instructions, aiResponse,
          splitMessages, reply, requests, messages, isTyping, bookedTimer,
          bookedModal, leads>>

----------------------------------------------------------------------------
(* Strings *)

Digits == {"0", "1", "2", "3", "4", "5", "6", "7", "8", "9"}

IsSpace(c) == c = " "

UpperToLower ==
    [c \in {"A", "B", "C", "D", "E", "F", "G", "H", "I", "J", "K", "L", "M",
            "N", "O", "P", "Q", "R", "S", "T", "U", "V", "W", "X", "Y", "Z"} |->
        CASE c = "A" -> "a" [] c = "B" -> "b" [] c = "C" -> "c" [] c = "D" -> "d"
          [] c = "E" -> "e" [] c = "F" -> "f" [] c = "G" -> "g" [] c = "H" -> "h"
          [] c = "I" -> "i" [] c = "J" -> "j" [] c = "K" -> "k" [] c = "L" -> "l"
          [] c = "M" -> "m" [] c = "N" -> "n" [] c = "O" -> "o" [] c = "P" -> "p"
          [] c = "Q" -> "q" [] c = "R" -> "r" [] c = "S" -> "s" [] c = "T" -> "t"
          [] c = "U" -> "u" [] c = "V" -> "v" [] c = "W" -> "w" [] c = "X" -> "x"
          [] c = "Y" -> "y" [] c = "Z" -> "z"]

\* String.prototype.toLowerCase
toLowerCase(s) ==
    [i \in 1..Len(s) |-> IF s[i] \in DOMAIN UpperToLower THEN UpperToLower[s[i]] ELSE s[i]]

\* String.prototype.trim
trim(s) ==
    LET keep == {i \in 1..Len(s) : ~IsSpace(s[i])}
    IN  IF keep = {} THEN <<>>
        ELSE LET lo == CHOOSE i \in keep : \A j \in keep : i <= j
                 hi == CHOOSE i \in keep : \A j \in keep : j <= i
             IN  SubSeq(s, lo, hi)

\* String.prototype.includes
includes(s, t) ==
    \E i \in 0..(Len(s) - Len(t)) : SubSeq(s, i + 1, i + Len(t)) = t

\* Last index of the maximal run of characters of class C that starts at i
\* (i - 1 when s[i] is not in the class).
RunEnd(s, i, C(_)) ==
    LET stops == {k \in i..Len(s) : ~C(s[k])}
    IN  IF stops = {} THEN Len(s)
        ELSE (CHOOSE k \in stops : \A j \in stops : k <= j) - 1

\* The JavaScript value of a string used as a condition
TruthyStr(o) == o # <<>> /\ o[1] # <<>>

None == <<>>
Some(v) == <<v>>

----------------------------------------------------------------------------
(* Message segmenter (splitLongMessage, the same text in all three handlers) *)

\* [.!?] of the split pattern
IsTerminal(c) == c \in {".", "!", "?"}

\* Where /(?<=[.!?])\s+/ matches: at a white-space character that directly
\* follows a terminal character; the match takes the whole white-space run
separators(message_) ==
    {i \in 2..Len(message_) : IsTerminal(message_[i - 1]) /\ IsSpace(message_[i])}

\* The pieces of message from index start on, cut at the matches in seps
RECURSIVE splitFrom(_, _, _)
splitFrom(message_, start, seps) ==
    IF seps = {} THEN <<SubSeq(message_, start, Len(message_))>>
    ELSE LET i == CHOOSE k \in seps : \A j \in seps : k <= j
         IN  <<SubSeq(message_, start, i - 1)>>
                 \o splitFrom(message_, RunEnd(message_, i, IsSpace) + 1, seps \ {i})

\* const sentences = message.split(/(?<=[.!?])\s+/)
sentences(message_) == splitFrom(message_, 1, separators(message_))

\* Approximate characters per line
CharsPerLine == 50

\* Math.floor where the code has Math.ceil
sentenceLinesFloor(sentence) == Len(sentence) \div CharsPerLine

\* Math.ceil(sentence.length / 50)
sentenceLines(sentence) == (Len(sentence) + CharsPerLine - 1) \div CharsPerLine

\* The loop without its final push
flushNothing(result, currentMessage) == result

\* if (currentMessage.trim()) result.push(currentMessage.trim())
flush(result, currentMessage) ==
    IF trim(currentMessage) # <<>> THEN Append(result, trim(currentMessage)) ELSE result

\* for (const sentence of sentences) { ... } from the k-th sentence on, then
\* the final push
RECURSIVE accumulate(_, _, _, _, _)
accumulate(all, k, result, currentMessage, lineCount) ==
    IF k > Len(all) THEN flush(result, currentMessage)
    ELSE IF lineCount + sentenceLines(all[k]) > 2 /\ trim(currentMessage) # <<>>
    THEN accumulate(all, k + 1, Append(result, trim(currentMessage)), all[k],
                    sentenceLines(all[k]))
    ELSE accumulate(all, k + 1, result,
                    currentMessage \o (IF currentMessage # <<>> THEN <<" ">> ELSE <<>>)
                        \o all[k],
                    lineCount + sentenceLines(all[k]))

\* splitLongMessage returning the accumulated result whenever it has a segment
splitLongMessageTrimmed(message_) ==
    LET result == accumulate(sentences(message_), 1, <<>>, <<>>, 0)
    IN  IF Len(result) > 0 THEN result ELSE <<message_>>

splitLongMessage(message_) ==
    LET result == accumulate(sentences(message_), 1, <<>>, <<>>, 0)
    IN  IF Len(result) > 1 THEN result ELSE <<message_>>

\* The response field always carrying the array of segments
responseFieldArray(splitMessages_, aiResponse_) ==
    [isArray |-> TRUE, parts |-> splitMessages_]

\* response: splitMessages.length > 1 ? splitMessages : aiResponse
\* (a string is the record with isArray FALSE and the string as its one part)
responseField(splitMessages_, aiResponse_) ==
    IF Len(splitMessages_) > 1 THEN [isArray |-> TRUE, parts |-> splitMessages_]
    ELSE [isArray |-> FALSE, parts |-> <<aiResponse_>>]

----------------------------------------------------------------------------
(* Field extractors *)

EmailChar(c) == ~IsSpace(c) /\ c # "@"

\* msg.match(/[^\s@]+@[^\s@]+\.[^\s@]+/): None, or Some(the leftmost match)
emailMatch(s) ==
    LET EndOf(i) ==
            \* end of the match that starts at i, or 0
            LET j == RunEnd(s, i, EmailChar) + 1      \* position of "@"
            IN  IF j <= i \/ j > Len(s) \/ s[j] # "@" THEN 0
                ELSE LET k == RunEnd(s, j + 1, EmailChar)
                     IN  IF \E p \in (j + 2)..(k - 1) : s[p] = "." THEN k ELSE 0
        starts == {i \in 1..Len(s) : EndOf(i) # 0}
    IN  IF starts = {} THEN None
        ELSE LET i == CHOOSE x \in starts : \A y \in starts : x <= y
             IN  Some(SubSeq(s, i, EndOf(i)))

PhoneFirst(c) == c \in Digits \cup {"+", "(", ")"}
PhoneRest(c) == c \in Digits \cup {" ", "(", ")", ".", "+", "-"}

MinPhoneRest == 5

\* phoneMatchRef without the minimum length of the run
phoneMatchRefAnyLength(s) ==
    LET starts == {i \in 1..Len(s) : PhoneFirst(s[i])}
    IN  IF starts = {} THEN None
        ELSE LET i == CHOOSE x \in starts : \A y \in starts : x <= y
             IN  Some(SubSeq(s, i, RunEnd(s, i + 1, PhoneRest)))

\* msg.match(/[+()\d][\d\s().+-]{5,}/) of the reference engine
phoneMatchRef(s) ==
    LET EndOf(i) ==
            IF ~PhoneFirst(s[i]) THEN 0
            ELSE LET k == RunEnd(s, i + 1, PhoneRest)
                 IN  IF k - i >= MinPhoneRest THEN k ELSE 0
        starts == {i \in 1..Len(s) : EndOf(i) # 0}
    IN  IF starts = {} THEN None
        ELSE LET i == CHOOSE x \in starts : \A y \in starts : x <= y
             IN  Some(SubSeq(s, i, EndOf(i)))

PhoneCharOld(c) == c \in Digits \cup {" ", "-", "(", ")", "+"}

\* userMessage.match(/[\d\s\-\(\)\+]+/) of the deployed handlers
phoneMatchOld(s) ==
    LET starts == {i \in 1..Len(s) : PhoneCharOld(s[i])}
    IN  IF starts = {} THEN None
        ELSE LET i == CHOOSE x \in starts : \A y \in starts : x <= y
             IN  Some(SubSeq(s, i, RunEnd(s, i, PhoneCharOld)))

\* A count that takes every name for a single token
splitLengthOne(s) == 1

\* name.split(/\s+/).length
splitLength(s) ==
    1 + Cardinality({i \in 1..Len(s) : IsSpace(s[i]) /\ (i = 1 \/ ~IsSpace(s[i - 1]))})

----------------------------------------------------------------------------
(* Lead state *)

\* userInfo = { stage: 'greeting' }
InitialUserInfo ==
    [stage |-> "greeting", name |-> None, industry |-> None, email |-> None,
     phone |-> None, city |-> None, proposedSlots |-> None,
     proposedDateLabel |-> None, appointmentLabel |-> None, leadId |-> None]

\* type ConversationStage of the reference engine, in declaration order
StagesRef ==
    <<"greeting", "asking_name", "industry", "explaining", "pitch_call",
      "collecting_name", "collecting_email", "collecting_phone",
      "collecting_city", "booking", "confirmed">>

\* type ConversationStage of the deployed English handler
StagesEn ==
    <<"greeting", "asking_name", "industry", "explaining", "pitch_call",
      "collecting_name", "collecting_email", "collecting_phone",
      "collecting_city", "booking", "confirmed">>

\* type ConversationStage of the Portuguese handler
StagesPt ==
    <<"greeting", "asking_name", "industry", "pain_points", "explaining",
      "collecting_phone", "collecting_email", "collecting_name",
      "collecting_city", "booking", "confirmed">>

----------------------------------------------------------------------------
(* Slot proposer *)

morningOptions ==
    << <<"9", "a", "m">>, <<"9", ":", "3", "0", "a", "m">>, <<"1", "0", "a", "m">>,
       <<"1", "0", ":", "3", "0", "a", "m">>, <<"1", "1", "a", "m">> >>

afternoonOptions ==
    << <<"2", "p", "m">>, <<"2", ":", "3", "0", "p", "m">>, <<"3", "p", "m">>,
       <<"3", ":", "3", "0", "p", "m">>, <<"4", "p", "m">>,
       <<"4", ":", "3", "0", "p", "m">>, <<"5", "p", "m">> >>

\* target.toLocaleDateString('en-US', { weekday: 'long' })
Weekdays ==
    << <<"M", "o", "n", "d", "a", "y">>, <<"F", "r", "i", "d", "a", "y">>,
       <<"S", "u", "n", "d", "a", "y">>, <<"T", "u", "e", "s", "d", "a", "y">>,
       <<"W", "e", "d", "n", "e", "s", "d", "a", "y">>,
       <<"T", "h", "u", "r", "s", "d", "a", "y">>,
       <<"S", "a", "t", "u", "r", "d", "a", "y">> >>

\* How many entries of each pool Math.random and the clock are let to draw
MaxMorning == 2
MaxAfternoon == 2
MaxWeekdays == 1

Min(a, b) == IF a <= b THEN a ELSE b

\* A proposer that picks both slots from the morning pool
generateBookingOptionsMorning ==
    {[dateLabel |-> Weekdays[d], slots |-> <<morningOptions[m], morningOptions[a]>>] :
        d \in 1..Min(MaxWeekdays, Len(Weekdays)),
        m \in 1..Min(MaxMorning, Len(morningOptions)),
        a \in 1..Min(MaxAfternoon, Len(morningOptions))}

\* The results generateBookingOptions can return: { dateLabel, slots }
generateBookingOptions ==
    {[dateLabel |-> Weekdays[d], slots |-> <<morningOptions[m], afternoonOptions[a]>>] :
        d \in 1..Min(MaxWeekdays, Len(Weekdays)),
        m \in 1..Min(MaxMorning, Len(morningOptions)),
        a \in 1..Min(MaxAfternoon, Len(afternoonOptions))}

\* enrich running in every stage from booking on
enrichFromBooking(info, opt) ==
    IF info.stage \in {"booking", "confirmed"} /\ info.proposedSlots = None
    THEN [info EXCEPT !.proposedSlots = Some(opt.slots),
                      !.proposedDateLabel = Some(opt.dateLabel)]
    ELSE info

\* enrich without the guard on proposedSlots: new times on every booking turn
enrichEveryTurn(info, opt) ==
    IF info.stage = "booking"
    THEN [info EXCEPT !.proposedSlots = Some(opt.slots),
                      !.proposedDateLabel = Some(opt.dateLabel)]
    ELSE info

\* The condition under which serve calls the proposer
callsProposer(info) == info.stage = "booking" /\ info.proposedSlots = None

\* What one turn can draw from the proposer: nothing when it is not called
NoDraw == [dateLabel |-> <<>>, slots |-> <<>>]
Draws(info) == IF callsProposer(info) THEN generateBookingOptions ELSE {NoDraw}

\* Enrichment step of serve; opt is the proposer's result, used only when it runs
enrich(info, opt) ==
    IF callsProposer(info)
    THEN [info EXCEPT !.proposedSlots = Some(opt.slots),
                      !.proposedDateLabel = Some(opt.dateLabel)]
    ELSE info

----------------------------------------------------------------------------
(* Reference engine (src/unnamed/part_007) *)

\* The keywords without the shortest one
AffirmativeRefLong ==
    { <<"m", "a", "k", "e", "s", " ", "s", "e", "n", "s", "e">>,
      <<"p", "e", "r", "f", "e", "c", "t">>, <<"g", "o", "t", " ", "i", "t">>,
      <<"y", "e", "s">>, <<"s", "u", "r", "e">> }

AffirmativeRef ==
    { <<"m", "a", "k", "e", "s", " ", "s", "e", "n", "s", "e">>,
      <<"p", "e", "r", "f", "e", "c", "t">>, <<"g", "o", "t", " ", "i", "t">>,
      <<"y", "e", "s">>, <<"s", "u", "r", "e">>, <<"o", "k">> }

\* /(makes sense|perfect|got it|yes|sure|ok)/i.test(lower)
affirmativeRef(lower) == \E k \in AffirmativeRef : includes(toLowerCase(lower), k)

At == <<" ", "a", "t", " ">>

AgreedDate ==
    <<"o", "n", " ", "t", "h", "e", " ", "a", "g", "r", "e", "e", "d", " ", "d", "a", "t", "e">>

\* findSlot looking at the first slot only
findSlotFirstOnly(slots, lower) ==
    IF slots # <<>> /\ includes(lower, toLowerCase(slots[1])) THEN Some(slots[1]) ELSE None

\* findSlot keeping the last slot found instead of the first
findSlotLast(slots, lower) ==
    LET hits == {i \in 1..Len(slots) : includes(lower, toLowerCase(slots[i]))}
    IN  IF hits = {} THEN None
        ELSE Some(slots[CHOOSE i \in hits : \A j \in hits : j <= i])

\* slots.find(s => lower.includes(s.toLowerCase())): None or Some(first slot found)
findSlot(slots, lower) ==
    LET hits == {i \in 1..Len(slots) : includes(lower, toLowerCase(slots[i]))}
    IN  IF hits = {} THEN None
        ELSE Some(slots[CHOOSE i \in hits : \A j \in hits : i <= j])

\* nextStageRef with the contact stages in the order of the earlier flow
nextStageRefPhoneFirst(stage) ==
    CASE stage = "greeting" -> "asking_name"
      [] stage = "asking_name" -> "industry"
      [] stage = "industry" -> "explaining"
      [] stage = "explaining" -> "pitch_call"
      [] stage = "pitch_call" -> "collecting_phone"
      [] stage = "collecting_name" -> "collecting_phone"
      [] stage = "collecting_phone" -> "collecting_email"
      [] stage = "collecting_email" -> "collecting_city"
      [] stage = "collecting_city" -> "booking"
      [] stage = "booking" -> "confirmed"
      [] OTHER -> stage

\* nextStageRef with the industry question skipped
nextStageRefSkipIndustry(stage) ==
    CASE stage = "greeting" -> "asking_name"
      [] stage = "asking_name" -> "explaining"
      [] stage = "industry" -> "explaining"
      [] stage = "explaining" -> "pitch_call"
      [] stage = "pitch_call" -> "collecting_email"
      [] stage = "collecting_name" -> "collecting_email"
      [] stage = "collecting_email" -> "collecting_phone"
      [] stage = "collecting_phone" -> "collecting_city"
      [] stage = "collecting_city" -> "booking"
      [] stage = "booking" -> "confirmed"
      [] OTHER -> stage

\* The stage each case of updateUserInfo assigns when it advances
nextStageRef(stage) ==
    CASE stage = "greeting" -> "asking_name"
      [] stage = "asking_name" -> "industry"
      [] stage = "industry" -> "explaining"
      [] stage = "explaining" -> "pitch_call"
      [] stage = "pitch_call" -> "collecting_email"
      [] stage = "collecting_name" -> "collecting_email"
      [] stage = "collecting_email" -> "collecting_phone"
      [] stage = "collecting_phone" -> "collecting_city"
      [] stage = "collecting_city" -> "booking"
      [] stage = "booking" -> "confirmed"
      [] OTHER -> stage

\* updateUserInfo after its first lines: msg is userMessage.trim(), lower is
\* msg.toLowerCase()
updateTrimmedRef(currentInfo, msg, lower) ==
    LET updated == currentInfo
        singleToken == TruthyStr(updated.name) /\ splitLength(updated.name[1]) < 2
        appended == Some(trim(updated.name[1] \o <<" ">> \o msg))
    IN  CASE currentInfo.stage = "greeting" ->
                [updated EXCEPT !.stage = nextStageRef(currentInfo.stage)]
          [] currentInfo.stage = "asking_name" ->
                [updated EXCEPT !.name = IF TruthyStr(updated.name) THEN @ ELSE Some(msg),
                                !.stage = nextStageRef(currentInfo.stage)]
          [] currentInfo.stage = "industry" ->
                [updated EXCEPT !.industry = Some(msg), !.stage = nextStageRef(currentInfo.stage)]
          [] currentInfo.stage = "explaining" ->
                IF affirmativeRef(lower)
                THEN [updated EXCEPT !.stage = nextStageRef(currentInfo.stage)]
                ELSE updated
          [] currentInfo.stage = "pitch_call" ->
                IF singleToken
                THEN [updated EXCEPT !.name = appended, !.stage = nextStageRef(currentInfo.stage)]
                ELSE [updated EXCEPT !.stage = nextStageRef(currentInfo.stage)]
          [] currentInfo.stage = "collecting_name" ->
                [updated EXCEPT
                    !.name = IF singleToken THEN appended
                             ELSE IF ~TruthyStr(updated.name) THEN Some(msg) ELSE @,
                    !.stage = nextStageRef(currentInfo.stage)]
          [] currentInfo.stage = "collecting_email" ->
                IF emailMatch(msg) # None
                THEN [updated EXCEPT !.email = Some(emailMatch(msg)[1]),
                                     !.stage = nextStageRef(currentInfo.stage)]
                ELSE updated
          [] currentInfo.stage = "collecting_phone" ->
                IF phoneMatchRef(msg) # None
                THEN [updated EXCEPT !.phone = Some(trim(phoneMatchRef(msg)[1])),
                                     !.stage = nextStageRef(currentInfo.stage)]
                ELSE updated
          [] currentInfo.stage = "collecting_city" ->
                [updated EXCEPT !.city = Some(msg), !.stage = nextStageRef(currentInfo.stage)]
          [] currentInfo.stage = "booking" ->
                LET slots == IF updated.proposedSlots = None THEN <<>>
                             ELSE updated.proposedSlots[1]
                    picked == findSlot(slots, lower)
                    dateLabel == IF TruthyStr(updated.proposedDateLabel)
                                 THEN updated.proposedDateLabel[1] ELSE AgreedDate
                IN  IF TruthyStr(picked)
                    THEN [updated EXCEPT
                            !.appointmentLabel = Some(dateLabel \o At \o picked[1]),
                            !.stage = nextStageRef(currentInfo.stage)]
                    ELSE updated
          [] OTHER -> updated

\* updateUserInfo reading the generated reply where it should read the message
updateUserInfoRefByReply(currentInfo, userMessage, aiResponse_) ==
    updateTrimmedRef(currentInfo, trim(userMessage), toLowerCase(aiResponse_))

\* An update that takes the message of every stage for the city
updateUserInfoRefCity(currentInfo, userMessage, aiResponse_) ==
    [updateTrimmedRef(currentInfo, trim(userMessage), toLowerCase(trim(userMessage)))
        EXCEPT !.city = Some(trim(userMessage))]

\* updateUserInfo of the reference engine; aiResponse is a parameter the body
\* never reads (msg is bound through a set so that the trimmed message is
\* computed once)
updateUserInfoRef(currentInfo, userMessage, aiResponse_) ==
    CHOOSE updated \in {updateTrimmedRef(currentInfo, msg, toLowerCase(msg)) :
                            msg \in {trim(userMessage)}} : TRUE

\* buildSystemPrompt of the reference engine: the base prompt quotes the
\* userInfo it is given, followed by the directive of its stage, if any
buildSystemPromptRef(userInfo_) ==
    [userInfo |-> userInfo_,
     directive |-> IF \E i \in DOMAIN StagesRef : StagesRef[i] = userInfo_.stage
                   THEN userInfo_.stage ELSE "default"]

\* serve of the reference engine: llm is the text-generation call's result.
\* Returns the response: status and, on success, the returned userInfo; prompt
\* is the system prompt built on the way.
serveRef(info, msg, opt, llm, db) ==
    IF ~llm.ok
    THEN [status |-> "error", userInfo |-> info, leads |-> db,
          prompt |-> Some(buildSystemPromptRef(enrich(info, opt))), response |-> None,
          splitMessages |-> None, reply |-> None]
    ELSE [status |-> "ok", userInfo |-> updateUserInfoRef(enrich(info, opt), msg, llm.text),
          leads |-> db, prompt |-> Some(buildSystemPromptRef(enrich(info, opt))),
          response |-> Some(llm.text),
          splitMessages |-> Some(splitLongMessage(llm.text)),
          reply |-> Some(responseField(splitLongMessage(llm.text), llm.text))]

----------------------------------------------------------------------------
(* Deployed English handler (src/supabase/functions/chat-with-ai/index.ts) *)

\* The columns saveOrUpdateLead writes
LeadRow(info) ==
    [name |-> info.name, email |-> info.email, phone |-> info.phone,
     industry |-> info.industry, stage |-> info.stage]

\* switch (userInfo.stage) of saveOrUpdateLead: the stage-specific update
stageSpecificUpdate(userInfo_, message_, phoneM, emailM) ==
    CASE userInfo_.stage = "industry" ->
            [userInfo_ EXCEPT !.industry = Some(trim(message_)),
                              !.stage = "asking_name"]
      [] userInfo_.stage = "asking_name" ->
            [userInfo_ EXCEPT !.name = Some(trim(message_)),
                              !.stage = "pain_points"]
      [] userInfo_.stage = "collecting_phone" ->
            IF phoneM # None
            THEN [userInfo_ EXCEPT !.phone = Some(trim(phoneM[1])),
                                   !.stage = "collecting_email"]
            ELSE userInfo_
      [] userInfo_.stage = "collecting_email" ->
            IF emailM # None
            THEN [userInfo_ EXCEPT !.email = Some(emailM[1]),
                                   !.stage = "collecting_name"]
            ELSE userInfo_
      [] userInfo_.stage = "collecting_name" ->
            [userInfo_ EXCEPT
                !.name = IF TruthyStr(@) THEN @ ELSE Some(trim(message_)),
                !.stage = "collecting_city"]
      [] userInfo_.stage = "collecting_city" ->
            [userInfo_ EXCEPT !.city = Some(trim(message_)),
                              !.stage = "booking"]
      [] OTHER -> userInfo_

\* saveLead inserting a row for a lead that already has a leadId
saveLeadAlwaysInsert(userInfo_, updatedInfo, db, res) ==
    IF TruthyStr(updatedInfo.email) \/ TruthyStr(updatedInfo.phone)
    THEN CASE res = "ok" ->
                [info |-> [updatedInfo EXCEPT !.leadId = Some(Len(db) + 1)],
                 leads |-> Append(db, LeadRow(updatedInfo))]
           [] res = "error" -> [info |-> updatedInfo, leads |-> db]
           [] OTHER -> [info |-> userInfo_, leads |-> db]
    ELSE [info |-> updatedInfo, leads |-> db]

\* The insert or update of saveOrUpdateLead and its catch: res is the result of
\* the call made ("ok", "error" as a returned error, "throw").  Returns the
\* userInfo handed back to serve and the leads table afterwards.
saveLead(userInfo_, updatedInfo, db, res) ==
    IF (TruthyStr(updatedInfo.email) \/ TruthyStr(updatedInfo.phone))
       /\ updatedInfo.leadId = None
    THEN CASE res = "ok" ->
                [info |-> [updatedInfo EXCEPT !.leadId = Some(Len(db) + 1)],
                 leads |-> Append(db, LeadRow(updatedInfo))]
           [] res = "error" -> [info |-> updatedInfo, leads |-> db]
           [] OTHER -> [info |-> userInfo_, leads |-> db]
    ELSE IF updatedInfo.leadId # None
    THEN CASE res = "ok" ->
                [info |-> updatedInfo,
                 leads |-> IF updatedInfo.leadId[1] \in DOMAIN db
                           THEN [db EXCEPT ![updatedInfo.leadId[1]] = LeadRow(updatedInfo)]
                           ELSE db]
           [] res = "error" -> [info |-> updatedInfo, leads |-> db]
           [] OTHER -> [info |-> userInfo_, leads |-> db]
    ELSE [info |-> updatedInfo, leads |-> db]

saveOrUpdateLead(userInfo_, message_, db, res) ==
    saveLead(userInfo_,
             stageSpecificUpdate(userInfo_, message_, phoneMatchOld(message_),
                                 emailMatch(message_)),
             db, res)

\* updateLeadConversation: upd is the result of its update call
updateLeadConversation(userInfo_, db, upd) ==
    IF userInfo_.leadId = None THEN db
    ELSE IF upd = "ok" /\ userInfo_.leadId[1] \in DOMAIN db
         THEN [db EXCEPT ![userInfo_.leadId[1]].stage = userInfo_.stage]
         ELSE db

AffirmativeEn ==
    { <<"y", "e", "s">>, <<"s", "u", "r", "e">>, <<"o", "k", "a", "y">> }

updateUserInfoEn(currentInfo, userMessage, aiResponse_) ==
    LET updatedInfo == currentInfo
        lowerMessage == toLowerCase(userMessage)
        phoneM == phoneMatchOld(userMessage)
        emailM == emailMatch(userMessage)
    IN  CASE currentInfo.stage = "greeting" ->
                [updatedInfo EXCEPT !.stage = "asking_name"]
          [] currentInfo.stage = "asking_name" ->
                [updatedInfo EXCEPT !.name = Some(trim(userMessage)), !.stage = "industry"]
          [] currentInfo.stage = "industry" ->
                [updatedInfo EXCEPT !.industry = Some(trim(userMessage)),
                                    !.stage = "pain_points"]
          [] currentInfo.stage = "pain_points" ->
                [updatedInfo EXCEPT !.stage = "explaining"]
          [] currentInfo.stage = "explaining" ->
                IF \E k \in AffirmativeEn : includes(lowerMessage, k)
                THEN [updatedInfo EXCEPT !.stage = "collecting_phone"]
                ELSE updatedInfo
          [] currentInfo.stage = "collecting_phone" ->
                IF phoneM # None
                THEN [updatedInfo EXCEPT !.phone = Some(trim(phoneM[1])),
                                         !.stage = "collecting_email"]
                ELSE updatedInfo
          [] currentInfo.stage = "collecting_email" ->
                IF emailM # None
                THEN [updatedInfo EXCEPT !.email = Some(emailM[1]),
                                         !.stage = "collecting_city"]
                ELSE updatedInfo
          [] currentInfo.stage = "collecting_city" ->
                [updatedInfo EXCEPT !.city = Some(trim(userMessage)), !.stage = "booking"]
          [] currentInfo.stage = "booking" ->
                [updatedInfo EXCEPT !.stage = "confirmed"]
          [] OTHER -> updatedInfo

\* generateBookingOptions is called by the deployed handler but defined nowhere
\* in its file: the call throws a ReferenceError, so it returns nothing.
generateBookingOptionsEn == {}

\* The stages buildSystemPrompt of the deployed handlers has a directive for
PromptStagesOld ==
    {"greeting", "asking_name", "industry", "pain_points", "explaining",
     "collecting_phone", "collecting_email", "collecting_city", "booking", "confirmed"}

\* buildSystemPrompt of the deployed handlers
buildSystemPromptOld(userInfo_) ==
    [userInfo |-> userInfo_,
     directive |-> IF userInfo_.stage \in PromptStagesOld THEN userInfo_.stage
                   ELSE "default"]

\* End of serve: updateLeadConversation, then the success response
finishEn(finalUserInfo, db, upd2, prompt_, aiResponse_) ==
    [status |-> "ok", userInfo |-> finalUserInfo,
     leads |-> updateLeadConversation(finalUserInfo, db, upd2), prompt |-> prompt_,
     response |-> Some(aiResponse_),
     splitMessages |-> Some(splitLongMessage(aiResponse_)),
     reply |-> Some(responseField(splitLongMessage(aiResponse_), aiResponse_))]

\* serve after saveOrUpdateLead: enrichment, text generation, response
respondEn(info, msg, saved, llm, upd2) ==
    IF saved.info.stage = "booking" /\ saved.info.proposedSlots = None
       /\ generateBookingOptionsEn = {}
    THEN [status |-> "error", userInfo |-> info, leads |-> saved.leads, prompt |-> None,
          response |-> None, splitMessages |-> None, reply |-> None]
    ELSE IF ~llm.ok
    THEN [status |-> "error", userInfo |-> info, leads |-> saved.leads,
          prompt |-> Some(buildSystemPromptOld(saved.info)), response |-> None,
          splitMessages |-> None, reply |-> None]
    ELSE finishEn(updateUserInfoEn(saved.info, msg, llm.text), saved.leads, upd2,
                  Some(buildSystemPromptOld(saved.info)), llm.text)

\* serve of the deployed English handler: db1 is the result of the call made by
\* saveOrUpdateLead, upd2 of the one made by updateLeadConversation
serveEn(info, msg, db, db1, llm, upd2) ==
    respondEn(info, msg, saveOrUpdateLead(info, msg, db, db1), llm, upd2)

----------------------------------------------------------------------------
(* Portuguese handler (src/supabase/functions/chat-with-ai-pt/index.ts) *)

AffirmativePt ==
    { <<"s", "i", "m">>, <<"c", "l", "a", "r", "o">>, <<"o", "k">> }

\* The stage each case of updateUserInfo assigns when it advances
nextStagePt(stage) ==
    CASE stage = "greeting" -> "asking_name"
      [] stage = "asking_name" -> "industry"
      [] stage = "industry" -> "pain_points"
      [] stage = "pain_points" -> "explaining"
      [] stage = "explaining" -> "collecting_phone"
      [] stage = "collecting_phone" -> "collecting_email"
      [] stage = "collecting_email" -> "collecting_city"
      [] stage = "collecting_city" -> "booking"
      [] stage = "booking" -> "confirmed"
      [] OTHER -> stage

updateUserInfoPt(currentInfo, userMessage, aiResponse_) ==
    LET updatedInfo == currentInfo
        lowerMessage == toLowerCase(userMessage)
        phoneM == phoneMatchOld(userMessage)
        emailM == emailMatch(userMessage)
    IN  CASE currentInfo.stage = "greeting" ->
                [updatedInfo EXCEPT !.stage = nextStagePt(currentInfo.stage)]
          [] currentInfo.stage = "asking_name" ->
                [updatedInfo EXCEPT !.name = Some(trim(userMessage)), !.stage = nextStagePt(currentInfo.stage)]
          [] currentInfo.stage = "industry" ->
                [updatedInfo EXCEPT !.industry = Some(trim(userMessage)),
                                    !.stage = nextStagePt(currentInfo.stage)]
          [] currentInfo.stage = "pain_points" ->
                [updatedInfo EXCEPT !.stage = nextStagePt(currentInfo.stage)]
          [] currentInfo.stage = "explaining" ->
                IF \E k \in AffirmativePt : includes(lowerMessage, k)
                THEN [updatedInfo EXCEPT !.stage = nextStagePt(currentInfo.stage)]
                ELSE updatedInfo
          [] currentInfo.stage = "collecting_phone" ->
                IF phoneM # None
                THEN [updatedInfo EXCEPT !.phone = Some(trim(phoneM[1])),
                                         !.stage = nextStagePt(currentInfo.stage)]
                ELSE updatedInfo
          [] currentInfo.stage = "collecting_email" ->
                IF emailM # None
                THEN [updatedInfo EXCEPT !.email = Some(emailM[1]),
                                         !.stage = nextStagePt(currentInfo.stage)]
                ELSE updatedInfo
          [] currentInfo.stage = "collecting_city" ->
                [updatedInfo EXCEPT !.city = Some(trim(userMessage)), !.stage = nextStagePt(currentInfo.stage)]
          [] currentInfo.stage = "booking" ->
                [updatedInfo EXCEPT !.stage = nextStagePt(currentInfo.stage)]
          [] OTHER -> updatedInfo

\* serve of the Portuguese handler
servePt(info, msg, llm, db) ==
    IF ~llm.ok
    THEN [status |-> "error", userInfo |-> info, leads |-> db,
          prompt |-> Some(buildSystemPromptOld(info)), response |-> None,
          splitMessages |-> None, reply |-> None]
    ELSE [status |-> "ok", userInfo |-> updateUserInfoPt(info, msg, llm.text), leads |-> db,
          prompt |-> Some(buildSystemPromptOld(info)), response |-> Some(llm.text),
          splitMessages |-> Some(splitLongMessage(llm.text)),
          reply |-> Some(responseField(splitLongMessage(llm.text), llm.text))]

----------------------------------------------------------------------------
(* Visitor, collaborators and turns *)

Handlers == {"ref", "en", "pt"}

Plain == <<"A", "l">>
Surname == <<"A", "l", " ", "B", "o">>
Blank == <<" ">>
Yes == <<"Y", "e", "s">>
Okay == <<"O", "K">>
Book == <<"B", "o", "o", "k">>
EmailReply == <<"a", "@", "b", ".", "c", "o">>
PhoneReply == <<"5", "5", "5", "-", "0", "1", "0", "0", " ", "x">>
ShortPhone == <<"1", " ", "2", " ", "3", " ", "4">>

\* Replies naming appointment times: each label the proposer may have drawn,
\* as printed, one in upper case, and replies naming both labels of a proposal
NineUpper == <<"9", "A", "M">>
Or == <<" ", "o", "r", " ">>
SlotLabels == UNION {{o.slots[1], o.slots[2]} : o \in generateBookingOptions}
SlotMessages ==
    SlotLabels
        \cup {NineUpper}
        \cup {o.slots[2] \o Or \o o.slots[1] : o \in generateBookingOptions}

\* Every message the model lets a visitor send
AllMessages ==
    {Plain, Blank, Yes, Okay, Book, EmailReply, PhoneReply, ShortPhone} \cup SlotMessages

\* What the visitor sends in reply to a lead state: the kind of answer the
\* stage asks for, an answer of another kind, or no text at all; in booking,
\* the announced times if any were announced, else any time of the proposer
Messages(info) ==
    CASE info.stage = "explaining" -> {Yes, Okay, Plain}
      [] info.stage \in {"collecting_email", "collecting_phone"} ->
            {EmailReply, PhoneReply, Plain, Blank}
      [] info.stage = "booking" ->
            {Plain, NineUpper}
            \cup (IF info.proposedSlots = None THEN SlotLabels
                  ELSE LET slots == info.proposedSlots[1]
                       IN  {slots[1], slots[2], slots[2] \o Or \o slots[1]})
      [] OTHER -> {Plain, Blank}

\* Replies the text-generation service may write
LlmReplies ==
    { <<"H", "i", ".">>, <<"Y", "e", "s", ",", " ", "2", "p", "m", ".">>,
      <<"H", "i", ".", " ", "O", "k", "!", " ", "B", "y", "e", "?">> }

\* Results of the text-generation call: a reply, or a failure
\* (non-success status or malformed payload)
LlmResults ==
    {[ok |-> FALSE, text |-> <<>>]} \cup {[ok |-> TRUE, text |-> t] : t \in LlmReplies}

\* Results of a call to the persistence collaborator
DbResults == {"ok", "error", "throw"}

\* saveOrUpdateLead reaches its insert or its update: when the lead has an
\* email, a phone or a leadId after the stage-specific update
callsSave(info, msg) ==
    \E updatedInfo \in {stageSpecificUpdate(info, msg, phoneMatchOld(msg), emailMatch(msg))} :
        TruthyStr(updatedInfo.email) \/ TruthyStr(updatedInfo.phone)
            \/ updatedInfo.leadId # None

\* Results of the call saveOrUpdateLead makes, if it makes one
SaveDraws(info, msg) == IF callsSave(info, msg) THEN DbResults ELSE {"ok"}

\* Results of the call updateLeadConversation makes: none without a leadId,
\* which updateUserInfo passes on as saveOrUpdateLead returned it
ConversationDraws(info, msg, db, db1) ==
    IF saveOrUpdateLead(info, msg, db, db1).info.leadId = None THEN {"ok"} ELSE DbResults

(* The chat window (src/unnamed/part_001, src/src/components/ChatInterfacePt.tsx) *)

GreetingEn ==
    <<"H", "i", " ", "t", "h", "e", "r", "e", "!", " ", "I", "'", "m", " ",
      "S", "k", "y", " ", "A", "I", " ", "f", "r", "o", "m", " ", "N", "e",
      "o", " ", "G", "o", "l", "d", ".", " ", "W", "h", "a", "t", "'", "s",
      " ", "y", "o", "u", "r", " ", "n", "a", "m", "e", "?">>

GreetingPt ==
    <<"O", "l", "á", "!", " ", "E", "u", " ", "s", "o", "u", " ", "a", " ",
      "S", "k", "y", " ", "A", "I", " ", "d", "a", " ", "N", "e", "o", " ",
      "G", "o", "l", "d", ".", " ", "Q", "u", "a", "l", " ", "é", " ", "o",
      " ", "s", "e", "u", " ", "n", "o", "m", "e", "?">>

ApologyEn ==
    <<"I", "'", "m", " ", "h", "a", "v", "i", "n", "g", " ", "t", "r", "o",
      "u", "b", "l", "e", " ", "c", "o", "n", "n", "e", "c", "t", "i", "n",
      "g", " ", "r", "i", "g", "h", "t", " ", "n", "o", "w", ".", " ", "P",
      "l", "e", "a", "s", "e", " ", "t", "r", "y", " ", "a", "g", "a", "i",
      "n", " ", "i", "n", " ", "a", " ", "m", "o", "m", "e", "n", "t", "!">>

ApologyPt ==
    <<"E", "s", "t", "o", "u", " ", "c", "o", "m", " ", "p", "r", "o", "b",
      "l", "e", "m", "a", "s", " ", "d", "e", " ", "c", "o", "n", "e", "x",
      "ã", "o", " ", "a", "g", "o", "r", "a", ".", " ", "T", "e", "n", "t",
      "e", " ", "n", "o", "v", "a", "m", "e", "n", "t", "e", " ", "e", "m",
      " ", "u", "m", " ", "m", "o", "m", "e", "n", "t", "o", "!">>

\* A string as the text of a message (an array of strings has isArray TRUE)
StringText(t) == [isArray |-> FALSE, parts |-> <<t>>]

\* A message of the list; request is the request it belongs to (0: none),
\* standing for the id made of Date.now()
Message(text_, isUser_, request_) ==
    [text |-> text_, isUser |-> isUser_, isRead |-> FALSE, request |-> request_]

\* useState<Message[]>([...]): the greeting of the client that calls h
initialMessages(h) ==
    <<Message(StringText(IF h = "pt" THEN GreetingPt ELSE GreetingEn), FALSE, 0)>>

\* A catch that answers in English whatever the locale of the chat
errorMessageEnglish(h, request_) ==
    Message(StringText(ApologyEn), FALSE, request_)

\* errorMessage of the catch
errorMessage(h, request_) ==
    Message(StringText(IF h = "pt" THEN ApologyPt ELSE ApologyEn), FALSE, request_)

\* useEffect on userInfo of ChatInterfacePt: the timer it arms, if any (the
\* English client has no such effect)
bookedEffect(h, info) ==
    IF h = "pt" /\ info.stage = "confirmed" /\ TruthyStr(info.appointmentLabel)
    THEN info.appointmentLabel ELSE None

\* Six seconds pass: the callback of the booking timer, if one is armed, runs
\* setAppointmentLabel(label) and setShowBookedModal(true)
SixSecondsPass ==
    /\ bookedModal' = IF bookedTimer # None THEN bookedTimer ELSE bookedModal
    /\ bookedTimer' = None
    /\ UNCHANGED <<handler, userInfo, incoming, message, outcome, instructions,
                   aiResponse, splitMessages, reply, requests, messages, isTyping,
                   leads>>

\* Rows the leads table may hold
MaxLeads == 2

\* The caller applies a response: setUserInfo(data.userInfo) on success only
Apply(h, info, msg, resp) ==
    /\ Len(resp.leads) <= MaxLeads
    /\ handler' = h
    /\ incoming' = info
    /\ message' = msg
    /\ outcome' = resp.status
    /\ instructions' = resp.prompt
    /\ aiResponse' = resp.response
    /\ splitMessages' = resp.splitMessages
    /\ reply' = resp.reply
    /\ requests' = requests
    /\ userInfo' = IF resp.status = "ok" THEN resp.userInfo ELSE info
    /\ messages' = messages
    /\ isTyping' = FALSE
    /\ bookedTimer' = IF resp.status = "ok" THEN bookedEffect(h, resp.userInfo)
                      ELSE bookedTimer
    /\ bookedModal' = bookedModal
    /\ leads' = resp.leads

TurnRef ==
    /\ handler = "ref"
    /\ \E msg \in Messages(userInfo), opt \in Draws(userInfo), llm \in LlmResults :
          \E resp \in {serveRef(userInfo, msg, opt, llm, leads)} :
              Apply(handler, userInfo, msg, resp)

TurnEn ==
    /\ handler = "en"
    /\ \E msg \in Messages(userInfo), llm \in LlmResults :
       \E db1 \in SaveDraws(userInfo, msg) :
       \E db2 \in ConversationDraws(userInfo, msg, leads, db1) :
          \E resp \in {serveEn(userInfo, msg, leads, db1, llm, db2)} :
              Apply(handler, userInfo, msg, resp)

TurnPt ==
    /\ handler = "pt"
    /\ \E msg \in Messages(userInfo), llm \in LlmResults :
          \E resp \in {servePt(userInfo, msg, llm, leads)} :
              Apply(handler, userInfo, msg, resp)

Init ==
    /\ handler \in Handlers
    /\ userInfo = InitialUserInfo
    /\ incoming = InitialUserInfo
    /\ message = <<>>
    /\ outcome = "none"
    /\ instructions = None
    /\ aiResponse = None
    /\ splitMessages = None
    /\ reply = None
    /\ requests = <<>>
    /\ messages = initialMessages(handler)
    /\ isTyping = FALSE
    /\ bookedTimer = None
    /\ bookedModal = None
    /\ leads = <<>>

Next == TurnRef \/ TurnEn \/ TurnPt \/ SixSecondsPass

Spec == Init /\ [][Next]_vars

----------------------------------------------------------------------------
(* The segmenter applied to one generated reply *)

\* Sentences a generated reply is made of
MaxSentences == 3

Rep(c, n) == [i \in 1..n |-> c]

\* Sentence bodies: a short one, one without terminal punctuation, and ones of
\* 50, 51 (with a blank inside) and 101 characters
ShortBody == <<"H", "i", ".">>
OpenBody == <<"O", "k">>
OneLineBody == Rep("a", CharsPerLine - 1) \o <<"!">>
TwoLineBody == Rep("b", CharsPerLine - 3) \o <<" ", "b", "b", "?">>
ThreeLineBody == Rep("c", 2 * CharsPerLine) \o <<".">>

Bodies == {ShortBody, OpenBody, OneLineBody, TwoLineBody, ThreeLineBody}

\* A body followed by a blank, a short body followed by nothing, or one
\* more blank
Pieces == {b \o <<" ">> : b \in Bodies} \cup {ShortBody, OpenBody} \cup {<<" ">>}

RECURSIVE Concat(_)
Concat(ps) == IF ps = <<>> THEN <<>> ELSE Head(ps) \o Concat(Tail(ps))

\* Replies of up to MaxSentences pieces
Replies == {Concat(ps) : ps \in UNION {[1..n -> Pieces] : n \in 0..MaxSentences}}

InitSplit ==
    /\ handler = "en"
    /\ userInfo = InitialUserInfo
    /\ incoming = InitialUserInfo
    /\ message = <<>>
    /\ outcome = "none"
    /\ instructions = None
    /\ aiResponse \in {Some(r) : r \in Replies}
    /\ splitMessages = None
    /\ reply = None
    /\ requests = <<>>
    /\ messages = initialMessages(handler)
    /\ isTyping = FALSE
    /\ bookedTimer = None
    /\ bookedModal = None
    /\ leads = <<>>

\* const splitMessages = splitLongMessage(aiResponse), and the response field
\* made of it
Segment ==
    /\ splitMessages = None
    /\ \E segs \in {splitLongMessage(aiResponse[1])} :
          /\ splitMessages' = Some(segs)
          /\ reply' = Some(responseField(segs, aiResponse[1]))
    /\ UNCHANGED <<handler, userInfo, incoming, message, outcome, instructions,
                   aiResponse, requests, messages, isTyping, bookedTimer,
                   bookedModal, leads>>

NextSplit == Segment

SpecSplit == InitSplit /\ [][NextSplit]_vars

----------------------------------------------------------------------------
(* One turn on any lead state a caller may pass in *)

AllStages ==
    {StagesRef[i] : i \in DOMAIN StagesRef} \cup {StagesPt[i] : i \in DOMAIN StagesPt}
    \cup {"unknown"}

Monday == Weekdays[1]
Sunday == Weekdays[3]

\* Lead states of every stage, with the fields unset or set in the ways the
\* handlers tell apart
AnyUserInfo ==
    {[stage |-> st, name |-> nm, industry |-> c.industry, email |-> c.email,
      phone |-> c.phone, city |-> c.city, proposedSlots |-> b.slots,
      proposedDateLabel |-> b.dateLabel, appointmentLabel |-> b.appointment,
      leadId |-> id] :
        st \in AllStages,
        nm \in {None, Some(<<>>), Some(Plain), Some(Surname)},
        c \in {[industry |-> None, email |-> None, phone |-> None, city |-> None],
               [industry |-> Some(Plain), email |-> Some(EmailReply), phone |-> None,
                city |-> None],
               [industry |-> Some(Plain), email |-> Some(EmailReply),
                phone |-> Some(<<"5", "5", "5">>), city |-> Some(Plain)]},
        b \in {[slots |-> None, dateLabel |-> None, appointment |-> None],
               [slots |-> None, dateLabel |-> Some(Sunday), appointment |-> None],
               [slots |-> Some(<<morningOptions[1], afternoonOptions[1]>>),
                dateLabel |-> None, appointment |-> None],
               [slots |-> Some(<<morningOptions[1], afternoonOptions[1]>>),
                dateLabel |-> Some(Monday), appointment |-> None],
               [slots |-> Some(<<morningOptions[1], afternoonOptions[1]>>),
                dateLabel |-> Some(Monday),
                appointment |-> Some(Monday \o At \o morningOptions[1])]},
        id \in {None, Some(1)}}

InitAny ==
    /\ handler \in Handlers
    /\ userInfo \in AnyUserInfo
    /\ incoming = userInfo
    /\ message = <<>>
    /\ outcome = "none"
    /\ instructions = None
    /\ aiResponse = None
    /\ splitMessages = None
    /\ reply = None
    /\ requests = <<>>
    /\ messages = initialMessages(handler)
    /\ isTyping = FALSE
    /\ bookedTimer = bookedEffect(handler, userInfo)
    /\ bookedModal = None
    /\ leads = IF userInfo.leadId = None THEN <<>> ELSE <<LeadRow(userInfo)>>

AnyTurnRef ==
    /\ handler = "ref" /\ outcome = "none"
    /\ \E msg \in AllMessages, opt \in Draws(userInfo), llm \in LlmResults :
          \E resp \in {serveRef(userInfo, msg, opt, llm, leads)} :
              Apply(handler, userInfo, msg, resp)

AnyTurnEn ==
    /\ handler = "en" /\ outcome = "none"
    /\ \E msg \in AllMessages, llm \in LlmResults :
       \E db1 \in SaveDraws(userInfo, msg) :
       \E db2 \in ConversationDraws(userInfo, msg, leads, db1) :
          \E resp \in {serveEn(userInfo, msg, leads, db1, llm, db2)} :
              Apply(handler, userInfo, msg, resp)

AnyTurnPt ==
    /\ handler = "pt" /\ outcome = "none"
    /\ \E msg \in AllMessages, llm \in LlmResults :
          \E resp \in {servePt(userInfo, msg, llm, leads)} :
              Apply(handler, userInfo, msg, resp)

NextAny == AnyTurnRef \/ AnyTurnEn \/ AnyTurnPt \/ SixSecondsPass

SpecAny == InitAny /\ [][NextAny]_vars

----------------------------------------------------------------------------
(* A cooperative visitor talking to the reference engine *)

\* A valid answer to each stage; once slots have been announced (they are in
\* the lead state the caller holds), the exact text of one of them
CoopMessages(info) ==
    CASE info.stage = "greeting" -> {Plain, Yes}
      [] info.stage = "asking_name" -> {Plain, Surname}
      [] info.stage = "explaining" -> {Yes, Okay}
      [] info.stage = "collecting_email" -> {EmailReply}
      [] info.stage = "collecting_phone" -> {PhoneReply}
      [] info.stage = "booking" ->
            IF info.proposedSlots = None THEN {Plain, morningOptions[1]}
            ELSE {info.proposedSlots[1][1], info.proposedSlots[1][2]}
      [] OTHER -> {Plain}

InitCoop == Init /\ handler = "ref"

\* A turn the text-generation service answers
CoopTurnOk ==
    \E msg \in CoopMessages(userInfo), opt \in Draws(userInfo),
       llm \in {r \in LlmResults : r.ok} :
        \E resp \in {serveRef(userInfo, msg, opt, llm, leads)} :
              Apply(handler, userInfo, msg, resp)

\* A turn the text-generation service fails
CoopTurnFail ==
    \E msg \in CoopMessages(userInfo), opt \in Draws(userInfo),
       llm \in {r \in LlmResults : ~r.ok} :
        \E resp \in {serveRef(userInfo, msg, opt, llm, leads)} :
              Apply(handler, userInfo, msg, resp)

NextCoop == CoopTurnOk \/ CoopTurnFail

\* The visitor keeps answering and the service does not fail forever
SpecCoop == InitCoop /\ [][NextCoop]_vars /\ WF_vars(CoopTurnOk)

----------------------------------------------------------------------------
(* The chat client with turns in flight *)

\* Messages the client sends in one conversation
MaxSends == 3

\* What the visitor types in this conversation: an answer to the stage, and
\* at asking_name one of two, so that two requests sent from the same lead
\* state can come back with different ones
ClientMessages(info) ==
    CASE info.stage = "asking_name" -> {Plain, Surname}
      [] info.stage = "explaining" -> {Okay}
      [] info.stage = "collecting_email" -> {EmailReply}
      [] info.stage = "collecting_phone" -> {PhoneReply}
      [] OTHER -> {Plain}

\* Results of the text-generation call in this conversation
ClientLlmResults ==
    {[ok |-> FALSE, text |-> <<>>], [ok |-> TRUE, text |-> <<"H", "i", ".">>],
     [ok |-> TRUE, text |-> <<"H", "i", ".", " ", "O", "k", "!", " ", "B", "y", "e", "?">>]}

\* The responses the handler may give to a request, with the leads table
\* afterwards
Responses(h, info, msg, db) ==
    CASE h = "ref" ->
            {serveRef(info, msg, opt, llm, db) :
                opt \in Draws(info), llm \in ClientLlmResults}
      [] h = "en" ->
            UNION {{serveEn(info, msg, db, db1, llm, db2) :
                        db2 \in ConversationDraws(info, msg, db, db1)} :
                    db1 \in SaveDraws(info, msg), llm \in ClientLlmResults}
      [] OTHER ->
            {servePt(info, msg, llm, db) : llm \in ClientLlmResults}

\* A client that drops the response to a request sent from another lead state
applyIfFresh(current, request, response) ==
    IF response.status = "ok" /\ request.userInfo = current THEN response.userInfo
    ELSE current

\* setUserInfo(data.userInfo) on success; the catch leaves the state alone
applyResponse(current, request, response) ==
    IF response.status = "ok" THEN response.userInfo ELSE current

\* handleSendMessage up to the invoke: ChatInput does not look at isTyping, so
\* a message goes out whatever is in flight, with the userInfo of the render
Send ==
    /\ Len(requests) < MaxSends
    /\ \E msg \in ClientMessages(userInfo) :
          /\ requests' = Append(requests, [userInfo |-> userInfo, message |-> msg,
                                           status |-> "sent", response |-> None,
                                           shown |-> 0])
          /\ messages' = Append(messages,
                                Message(StringText(msg), TRUE, Len(requests) + 1))
    /\ isTyping' = TRUE
    /\ UNCHANGED <<handler, userInfo, incoming, message, outcome, instructions,
                   aiResponse, splitMessages, reply, bookedTimer, bookedModal, leads>>

\* The edge function serves one of the requests in flight
Handle ==
    \E i \in DOMAIN requests :
        /\ requests[i].status = "sent"
        /\ \E resp \in Responses(handler, requests[i].userInfo, requests[i].message, leads) :
              /\ Len(resp.leads) <= MaxLeads
              /\ leads' = resp.leads
              /\ requests' = [requests EXCEPT ![i].status = "answered",
                                              ![i].response = Some(resp)]
        /\ UNCHANGED <<handler, userInfo, incoming, message, outcome, instructions,
                       aiResponse, splitMessages, reply, messages, isTyping,
                       bookedTimer, bookedModal>>

\* What the client records of the response it is done with, and
\* setUserInfo(data.userInfo); setIsTyping(false) with the effect that follows
Done(i, resp) ==
    /\ userInfo' = applyResponse(userInfo, requests[i], resp)
    /\ incoming' = requests[i].userInfo
    /\ message' = requests[i].message
    /\ outcome' = resp.status
    /\ instructions' = resp.prompt
    /\ aiResponse' = resp.response
    /\ splitMessages' = resp.splitMessages
    /\ reply' = resp.reply
    /\ isTyping' = FALSE
    /\ bookedTimer' = IF resp.status = "ok" THEN bookedEffect(handler, resp.userInfo)
                      ELSE bookedTimer
    /\ UNCHANGED <<handler, bookedModal, leads>>

\* The catch of handleSendMessage, in both clients: the call failed
ReceiveError ==
    \E i \in DOMAIN requests :
        /\ requests[i].status = "answered"
        /\ \E resp \in {requests[i].response[1]} :
              /\ resp.status = "error"
              /\ messages' = Append(messages, errorMessage(handler, i))
              /\ Done(i, resp)
        /\ requests' = [requests EXCEPT ![i].status = "applied"]

\* handleSendMessage of the English client after the await: one message whose
\* text is data.response
Receive ==
    \E i \in DOMAIN requests :
        /\ handler # "pt"
        /\ requests[i].status = "answered"
        /\ \E resp \in {requests[i].response[1]} :
              /\ resp.status = "ok"
              /\ messages' = Append(messages, Message(resp.reply[1], FALSE, i))
              /\ Done(i, resp)
        /\ requests' = [requests EXCEPT ![i].status = "applied"]

\* handleSendMessage of the Portuguese client after the await: the user
\* message is marked as read; the segments follow after their delays
ReceivePt ==
    \E i \in DOMAIN requests :
        /\ handler = "pt"
        /\ requests[i].status = "answered"
        /\ requests[i].response[1].status = "ok"
        /\ messages' = [k \in DOMAIN messages |->
                           IF messages[k].isUser /\ messages[k].request = i
                           THEN [messages[k] EXCEPT !.isRead = TRUE]
                           ELSE messages[k]]
        /\ requests' = [requests EXCEPT ![i].status = "showing"]
        /\ UNCHANGED <<handler, userInfo, incoming, message, outcome, instructions,
                       aiResponse, splitMessages, reply, isTyping, bookedTimer,
                       bookedModal, leads>>

\* One pass of the loop over responses: after its delay the next segment is
\* appended; after the last one, setUserInfo and setIsTyping(false) follow
\* without another wait
ShowSegment ==
    \E i \in DOMAIN requests :
        /\ requests[i].status = "showing"
        /\ \E resp \in {requests[i].response[1]} :
           \E k \in {requests[i].shown + 1} :
              /\ messages' = Append(messages,
                                    Message(StringText(resp.reply[1].parts[k]), FALSE, i))
              /\ IF k < Len(resp.reply[1].parts)
                 THEN /\ requests' = [requests EXCEPT ![i].shown = k]
                      /\ UNCHANGED <<handler, userInfo, incoming, message, outcome,
                                     instructions, aiResponse, splitMessages, reply,
                                     isTyping, bookedTimer, bookedModal, leads>>
                 ELSE /\ requests' = [requests EXCEPT ![i].shown = k,
                                                      ![i].status = "applied"]
                      /\ Done(i, resp)

NextClient ==
    Send \/ Handle \/ Receive \/ ReceiveError \/ ReceivePt \/ ShowSegment
        \/ SixSecondsPass

SpecClient == Init /\ [][NextClient]_vars

----------------------------------------------------------------------------
(* A visitor who always writes some text to the deployed English handler *)

\* An email address after a word and a blank
EmailInText == <<"m", "e", " ">> \o EmailReply

\* What the visitor sends: never a blank message (ChatInput sends trimmed,
\* non-empty text), and where contact details are asked, also an email
\* address inside a phrase
TextMessages(info) ==
    (Messages(info) \ {Blank})
    \cup (IF info.stage \in {"collecting_email", "collecting_phone"}
          THEN {EmailInText} ELSE {})

InitEn == Init /\ handler = "en"

TurnEnText ==
    \E msg \in TextMessages(userInfo), llm \in LlmResults :
    \E db1 \in SaveDraws(userInfo, msg) :
    \E db2 \in ConversationDraws(userInfo, msg, leads, db1) :
        \E resp \in {serveEn(userInfo, msg, leads, db1, llm, db2)} :
            Apply(handler, userInfo, msg, resp)

NextEn == TurnEnText

SpecEn == InitEn /\ [][NextEn]_vars

----------------------------------------------------------------------------
(* Properties *)

\* Position of a stage in an enumeration, 0 when it is not a member
Pos(order, st) ==
    IF \E i \in DOMAIN order : order[i] = st
    THEN CHOOSE i \in DOMAIN order : order[i] = st
    ELSE 0

StagesOf(h) ==
    CASE h = "ref" -> StagesRef [] h = "en" -> StagesEn [] OTHER -> StagesPt

\* A turn has returned a lead state to the caller
Returned == outcome = "ok"

\* The message names label t, ignoring case
Names(msg, t) == includes(toLowerCase(msg), toLowerCase(t))

\* C1: in the reference engine and the Portuguese handler the stage a turn
\* returns is never at an earlier position of the handler's ConversationStage
\* enumeration than the stage passed in, for every lead state and message.
C1_StageNeverRegresses ==
    (handler \in {"ref", "pt"} /\ Returned) =>
        Pos(StagesOf(handler), userInfo.stage) >= Pos(StagesOf(handler), incoming.stage)

C1_Witness ==
    /\ handler = "ref" /\ Returned
    /\ incoming.stage = "collecting_phone" /\ userInfo.stage = "collecting_city"

\* C2: in the deployed English handler every returned stage is a member of
\* the file's ConversationStage enumeration and is not at an earlier position
\* than the incoming stage.
C2_EnStageMemberAndMonotonic ==
    (handler = "en" /\ Returned) =>
        /\ Pos(StagesEn, userInfo.stage) >= 1
        /\ Pos(StagesEn, userInfo.stage) >= Pos(StagesEn, incoming.stage)

\* C3: reference engine, incoming stage booking: a message naming a proposed
\* slot confirms with "<proposedDateLabel> at <slot>", the slot being the
\* first of the pair the message names; any other message holds the stage at
\* booking with no appointmentLabel.
C3_BookingPicksFirstNamedSlot ==
    (handler = "ref" /\ Returned /\ incoming.stage = "booking") =>
        /\ userInfo.proposedSlots # None /\ userInfo.proposedDateLabel # None
        /\ LET slots == userInfo.proposedSlots[1]
               label(i) == Some(userInfo.proposedDateLabel[1] \o At \o slots[i])
           IN  IF Names(message, slots[1])
               THEN userInfo.stage = "confirmed" /\ userInfo.appointmentLabel = label(1)
               ELSE IF Names(message, slots[2])
               THEN userInfo.stage = "confirmed" /\ userInfo.appointmentLabel = label(2)
               ELSE userInfo.stage = "booking" /\ userInfo.appointmentLabel = None

\* a reply naming the afternoon slot before the morning slot confirms the morning one
C3_Witness ==
    /\ handler = "ref" /\ Returned /\ incoming.stage = "booking"
    /\ incoming.proposedSlots # None
    /\ message = incoming.proposedSlots[1][2] \o <<" ", "o", "r", " ">>
                    \o incoming.proposedSlots[1][1]
    /\ userInfo.stage = "confirmed"

\* C4: in the deployed English and the Portuguese handler the stage confirmed
\* is entered only by a turn whose message names a proposed slot; any other
\* message received in booking leaves the stage at booking.
C4_ConfirmedOnlyBySlotReply ==
    (handler \in {"en", "pt"} /\ Returned /\ incoming.stage = "booking") =>
        LET slots == IF userInfo.proposedSlots = None THEN <<>> ELSE userInfo.proposedSlots[1]
        IN  \/ \E i \in DOMAIN slots : Names(message, slots[i])
            \/ userInfo.stage = "booking"

\* C5: appointmentLabel becomes set only in a turn whose message names a slot
\* already present in proposedSlots of the lead state passed into the turn.
C5_AppointmentOnlyFromAnnouncedSlot ==
    (Returned /\ incoming.appointmentLabel = None /\ userInfo.appointmentLabel # None) =>
        /\ incoming.proposedSlots # None
        /\ \E i \in DOMAIN incoming.proposedSlots[1] :
              Names(message, incoming.proposedSlots[1][i])

\* C6: a turn given a lead state that carries proposedSlots returns the same
\* proposedSlots and proposedDateLabel, and a turn returns other proposedSlots
\* than it was given only when the incoming stage is booking with none.
C6_SlotsNeverRegenerated ==
    Returned =>
        /\ incoming.proposedSlots # None =>
              /\ userInfo.proposedSlots = incoming.proposedSlots
              /\ userInfo.proposedDateLabel = incoming.proposedDateLabel
        /\ userInfo.proposedSlots # incoming.proposedSlots =>
              incoming.stage = "booking" /\ incoming.proposedSlots = None

\* a later booking turn that holds the stage, the announced slots in hand
C6_Witness ==
    /\ handler = "ref" /\ Returned
    /\ incoming.stage = "booking" /\ incoming.proposedSlots # None
    /\ userInfo.stage = "booking" /\ userInfo.proposedSlots = incoming.proposedSlots

\* C7: every lead state the reference engine returns with stage booking has
\* proposedSlots (a pair) and proposedDateLabel populated.
C7_BookingCarriesSlots ==
    (handler = "ref" /\ Returned /\ userInfo.stage = "booking") =>
        /\ userInfo.proposedSlots # None
        /\ Len(userInfo.proposedSlots[1]) = 2
        /\ userInfo.proposedDateLabel # None

\* s[i..k] has the shape local@domain.tld of the email pattern
EmailAt(s, i, k) ==
    \E j \in (i + 1)..k, q \in (i + 3)..(k - 1) :
        /\ q >= j + 2
        /\ s[j] = "@" /\ s[q] = "."
        /\ \A x \in i..k : x # j => EmailChar(s[x])

\* s[i..k] is a phone-like run: a digit, "+" or parenthesis, then at least
\* five digits, spaces, parentheses, ".", "+" or "-"
PhoneAt(s, i, k) ==
    /\ PhoneFirst(s[i]) /\ k - i >= MinPhoneRest
    /\ \A x \in (i + 1)..k : PhoneRest(s[x])

\* The text a pattern matches in s: at the leftmost start, as long as possible
MatchedTexts(s, At_(_, _, _)) ==
    LET spans == {sp \in (1..Len(s)) \X (1..Len(s)) : At_(s, sp[1], sp[2])}
    IN  {SubSeq(s, sp[1], sp[2]) : sp \in
            {a \in spans : \A b \in spans :
                a[1] < b[1] \/ (a[1] = b[1] /\ b[2] <= a[2])}}

\* The contact stages of the reference engine: no match returns the incoming
\* state; a match stores Stored(matched text) and advances one step
ContactStage(stage, next, At_(_, _, _), Stored(_), field(_)) ==
    (handler = "ref" /\ Returned /\ incoming.stage = stage) =>
        LET texts == MatchedTexts(trim(message), At_)
        IN  IF texts = {} THEN userInfo = incoming
            ELSE /\ \E t \in texts : field(userInfo) = Some(Stored(t))
                 /\ userInfo.stage = next

Verbatim(t) == t
EmailOf(info) == info.email
PhoneOf(info) == info.phone

\* C8 as claimed: in collecting_email and collecting_phone a message without
\* the pattern returns the incoming state unchanged; one with the pattern sets
\* the field to the matched text and advances exactly one step.
C8_FieldIsMatchedText ==
    /\ ContactStage("collecting_email", "collecting_phone", EmailAt, Verbatim, EmailOf)
    /\ ContactStage("collecting_phone", "collecting_city", PhoneAt, Verbatim, PhoneOf)

\* C8 as amended: the same, the phone being stored as the matched text with
\* the white space at its ends removed.
C8_FieldAndStageTogether ==
    /\ ContactStage("collecting_email", "collecting_phone", EmailAt, Verbatim, EmailOf)
    /\ ContactStage("collecting_phone", "collecting_city", PhoneAt, trim, PhoneOf)

\* a phone number followed by other words is stored without the blank between them
C8_Witness ==
    /\ handler = "ref" /\ Returned /\ incoming.stage = "collecting_phone"
    /\ message = PhoneReply
    /\ userInfo.stage = "collecting_city"
    /\ userInfo.phone = Some(<<"5", "5", "5", "-", "0", "1", "0", "0">>)

\* C9: a turn whose incoming stage is confirmed returns the incoming stage,
\* name, industry, email, phone, city, proposedSlots, proposedDateLabel and
\* appointmentLabel, whatever the message.
C9_ConfirmedAbsorbing ==
    (Returned /\ incoming.stage = "confirmed") =>
        /\ userInfo.stage = incoming.stage
        /\ userInfo.name = incoming.name
        /\ userInfo.industry = incoming.industry
        /\ userInfo.email = incoming.email
        /\ userInfo.phone = incoming.phone
        /\ userInfo.city = incoming.city
        /\ userInfo.proposedSlots = incoming.proposedSlots
        /\ userInfo.proposedDateLabel = incoming.proposedDateLabel
        /\ userInfo.appointmentLabel = incoming.appointmentLabel

\* a confirmed lead of the reference engine is sent the text of a slot
C9_Witness ==
    /\ handler = "ref" /\ Returned /\ incoming.stage = "confirmed"
    /\ incoming.proposedSlots = None
    /\ message = morningOptions[1]

\* The confirming turn of a visitor who named one announced slot recorded
\* that slot; every confirmed lead carries "<proposedDateLabel> at <slot>"
C10_Label ==
    userInfo.stage = "confirmed" =>
        /\ userInfo.proposedSlots # None /\ userInfo.proposedDateLabel # None
        /\ \E i \in 1..2 :
              userInfo.appointmentLabel =
                  Some(userInfo.proposedDateLabel[1] \o At \o userInfo.proposedSlots[1][i])
        /\ (Returned /\ incoming.stage = "booking" /\ incoming.proposedSlots # None) =>
              userInfo.appointmentLabel =
                  Some(userInfo.proposedDateLabel[1] \o At \o message)

\* C10: from {stage: greeting}, a visitor of the reference engine who gives a
\* valid answer at each stage and, once slots are announced, replies with the
\* exact text of one of them reaches stage confirmed, with appointmentLabel
\* "<proposedDateLabel> at <that slot>".
C10_CooperativeVisitorConfirms ==
    /\ <>(userInfo.stage = "confirmed")
    /\ []C10_Label

\* the visitor confirmed by sending the afternoon slot that had been announced
C10_Witness ==
    /\ Returned /\ userInfo.stage = "confirmed"
    /\ incoming.stage = "booking" /\ incoming.proposedSlots # None
    /\ message = incoming.proposedSlots[1][2]

\* C11: in the reference engine a turn in greeting returns the incoming state
\* with stage asking_name and no field written; a turn in asking_name stores
\* the trimmed message as name when name is unset (kept otherwise) and returns
\* stage industry; a turn in industry stores the trimmed message as industry
\* and returns stage explaining.
C11_EarlyStages ==
    (handler = "ref" /\ Returned) =>
        /\ incoming.stage = "greeting" =>
              userInfo = [incoming EXCEPT !.stage = "asking_name"]
        /\ incoming.stage = "asking_name" =>
              userInfo = [incoming EXCEPT
                            !.name = IF TruthyStr(@) THEN @ ELSE Some(trim(message)),
                            !.stage = "industry"]
        /\ incoming.stage = "industry" =>
              userInfo = [incoming EXCEPT !.industry = Some(trim(message)),
                                          !.stage = "explaining"]

\* a visitor without a name answers the name question
C11_Witness ==
    /\ handler = "ref" /\ Returned
    /\ incoming.stage = "asking_name" /\ incoming.name = None
    /\ message = Plain
    /\ userInfo.name = Some(Plain) /\ userInfo.stage = "industry"

\* C12: a turn of the reference engine or of the deployed English handler
\* handed a lead state whose stage is outside the handler's enumeration fails:
\* it returns no lead state and builds no instructions.
C12_UnknownStageRejected ==
    (handler \in {"ref", "en"} /\ outcome # "none"
        /\ Pos(StagesOf(handler), incoming.stage) = 0) =>
        outcome = "error" /\ instructions = None

\* The last turn built its instructions and then failed: the text-generation
\* call is the only step between the two that can fail
LlmFailed == outcome = "error" /\ instructions # None

\* C13: a turn of the deployed English handler whose text-generation call
\* fails hands the caller no lead state and leaves the leads table as it was
\* before the turn.
C13_FailedTurnWritesNothing ==
    [][(handler = "en" /\ LlmFailed') => (userInfo' = userInfo /\ leads' = leads)]_vars

\* C14: the instructions a returning turn built are those of the stage it
\* returns, and they quote the slots the returned state carries.
C14_InstructionsOfReturnedStage ==
    Returned =>
        /\ instructions # None
        /\ instructions[1].directive = userInfo.stage
        /\ instructions[1].userInfo.proposedSlots = userInfo.proposedSlots

\* The Portuguese message that says what an English message says: the
\* affirmative keyword of the one locale for that of the other
Sim == <<"S", "i", "m">>
Localized(msg) == IF msg = Yes THEN Sim ELSE msg

\* C15: a turn of the deployed English handler returns the stage, name,
\* industry, email, phone and city that the Portuguese handler returns for the
\* same lead state and the equivalent message.
C15_LocalesAgree ==
    (handler = "en" /\ Returned) =>
        LET pt == updateUserInfoPt(incoming, Localized(message), <<>>)
        IN  /\ userInfo.stage = pt.stage
            /\ userInfo.name = pt.name
            /\ userInfo.industry = pt.industry
            /\ userInfo.email = pt.email
            /\ userInfo.phone = pt.phone
            /\ userInfo.city = pt.city

\* C16: the lead state a turn of the reference engine or of the Portuguese
\* handler returns is the one it returns for the same lead state and message
\* with any other generated reply.
C16_ReplyIgnored ==
    (handler \in {"ref", "pt"} /\ Returned) =>
        \A r \in LlmReplies :
            IF handler = "ref"
            THEN \E opt \in Draws(incoming) :
                    userInfo = updateUserInfoRef(enrich(incoming, opt), message, r)
            ELSE userInfo = updateUserInfoPt(incoming, message, r)

\* a reply that says yes and names a time, to a visitor who did neither
C16_Witness ==
    /\ handler = "ref" /\ Returned
    /\ incoming.stage = "booking" /\ incoming.proposedSlots # None
    /\ message = Plain
    /\ aiResponse = Some(<<"Y", "e", "s", ",", " ", "2", "p", "m", ".">>)
    /\ userInfo = incoming

\* The fields of a lead state other than leadId
Fields(info) ==
    <<info.stage, info.name, info.industry, info.email, info.phone, info.city,
      info.proposedSlots, info.proposedDateLabel, info.appointmentLabel>>

\* C17: what a turn of the deployed English handler returns, leadId apart,
\* and the directive it sends with the message are what it returns and
\* sends when every call to the leads table succeeds.
C17_PersistenceNeverRequired ==
    (handler = "en" /\ Returned) =>
        \E resp \in {serveEn(incoming, message, <<>>, "ok",
                             [ok |-> TRUE, text |-> aiResponse[1]], "ok")} :
            /\ resp.status = "ok"
            /\ Fields(userInfo) = Fields(resp.userInfo)
            /\ instructions[1].directive = resp.prompt[1].directive

\* C18: in a conversation started at greeting, a name, industry, email,
\* phone, city or leadId that is non-empty in the lead state passed into a
\* turn (the state the turn before returned) is non-empty in the state the
\* turn returns, and a leadId that is set is returned as it is.
C18_FieldsNeverCleared ==
    Returned =>
        /\ TruthyStr(incoming.name) => TruthyStr(userInfo.name)
        /\ TruthyStr(incoming.industry) => TruthyStr(userInfo.industry)
        /\ TruthyStr(incoming.email) => TruthyStr(userInfo.email)
        /\ TruthyStr(incoming.phone) => TruthyStr(userInfo.phone)
        /\ TruthyStr(incoming.city) => TruthyStr(userInfo.city)
        /\ incoming.leadId # None => userInfo.leadId = incoming.leadId

\* a lead already saved gives the email: the row is updated, the leadId kept
C18_Witness ==
    /\ handler = "en" /\ Returned
    /\ incoming.stage = "collecting_email" /\ incoming.leadId # None
    /\ TruthyStr(incoming.phone)
    /\ message = EmailReply
    /\ userInfo.leadId = incoming.leadId /\ TruthyStr(userInfo.email)

\* The field a free-text stage of the reference engine collects
FreeTextField(info, stage) ==
    CASE stage = "asking_name" -> info.name
      [] stage = "industry" -> info.industry
      [] OTHER -> info.city

\* C19: in asking_name, industry and collecting_city of the reference engine
\* a message that is empty once trimmed leaves the field and the stage as
\* they were, and the stage advances only with a non-empty value stored.
C19_EmptyAnswerHolds ==
    (handler = "ref" /\ Returned
        /\ incoming.stage \in {"asking_name", "industry", "collecting_city"}) =>
        /\ trim(message) = <<>> =>
              /\ userInfo.stage = incoming.stage
              /\ FreeTextField(userInfo, incoming.stage)
                    = FreeTextField(incoming, incoming.stage)
        /\ userInfo.stage # incoming.stage =>
              TruthyStr(FreeTextField(userInfo, incoming.stage))

\* The characters of a phone number as the claim lists them
PhoneRunChar(c) == c \in Digits \cup {" ", "(", ")", "+", "-"}

\* The characters of s that are not spaces
Significant(s) == Cardinality({i \in 1..Len(s) : s[i] # " "})

\* s is a run of phone characters with at least 6 that are not spaces
IsPhoneRun(s) ==
    /\ \A i \in 1..Len(s) : PhoneRunChar(s[i])
    /\ Significant(s) >= 6

HasPhoneRun(s) ==
    \E i \in 1..Len(s), k \in 1..Len(s) : i <= k /\ IsPhoneRun(SubSeq(s, i, k))

\* C20: when a turn in collecting_phone advances, the phone it stores is a
\* run of digits, spaces, parentheses, "+" and "-" with at least 6 characters
\* that are not spaces; a message without such a run leaves the phone and
\* the stage as they were.
C20_PhoneIsSignificantRun ==
    (Returned /\ incoming.stage = "collecting_phone") =>
        /\ userInfo.stage # incoming.stage =>
              userInfo.phone # None /\ IsPhoneRun(userInfo.phone[1])
        /\ ~HasPhoneRun(message) =>
              userInfo.phone = incoming.phone /\ userInfo.stage = incoming.stage

----------------------------------------------------------------------------
(* Properties of the segmenter *)

NonBlank(s) == trim(s) # <<>>

\* The sentences of a text, each without edge white space, blank ones left out
SentenceTexts(s) ==
    LET all == sentences(s)
    IN  SelectSeq([i \in DOMAIN all |-> trim(all[i])], NonBlank)

RECURSIVE JoinWithSpaces(_)
JoinWithSpaces(segs) ==
    IF Len(segs) = 0 THEN <<>>
    ELSE IF Len(segs) = 1 THEN segs[1]
    ELSE segs[1] \o <<" ">> \o JoinWithSpaces(Tail(segs))

\* C21: the segments, taken in order and joined with single spaces, hold
\* exactly the sentences of the reply in their order, and every sentence lies
\* whole inside one segment (the sentences of the segments, one segment after
\* the other, are the sentences of the reply).
C21_SegmentsKeepSentences ==
    splitMessages # None =>
        LET segs == splitMessages[1]
            want == SentenceTexts(aiResponse[1])
        IN  /\ SentenceTexts(JoinWithSpaces(segs)) = want
            /\ Concat([k \in DOMAIN segs |-> SentenceTexts(segs[k])]) = want

\* A reply of three sentences cut into two segments, one holding two sentences
C21_Witness ==
    /\ splitMessages # None
    /\ Len(splitMessages[1]) = 2
    /\ Len(SentenceTexts(aiResponse[1])) = 3
    /\ Len(SentenceTexts(splitMessages[1][1])) = 2

\* C22: splitLongMessage returns at least one segment and no segment is the
\* empty string.
C22_SegmentsNonEmpty ==
    splitMessages # None =>
        /\ Len(splitMessages[1]) >= 1
        /\ \A k \in DOMAIN splitMessages[1] : splitMessages[1][k] # <<>>

\* Math.ceil(length / 50), stated on its own: the least n with 50 * n >= length
LineCost(s) == CHOOSE n \in 0..Len(s) : CharsPerLine * n >= Len(s)
                                        /\ \A j \in 0..(n - 1) : CharsPerLine * j < Len(s)

\* The sentences of the reply as the split pattern cuts them, edge white space
\* included, blank ones left out
RawSentences(s) == SelectSeq(sentences(s), NonBlank)

RECURSIVE SumCost(_)
SumCost(ss) == IF ss = <<>> THEN 0 ELSE LineCost(Head(ss)) + SumCost(Tail(ss))

\* Number of sentences in the segments before the k-th
RECURSIVE SentencesBefore(_, _)
SentencesBefore(segs, k) ==
    IF k <= 1 THEN 0
    ELSE SentencesBefore(segs, k - 1) + Len(SentenceTexts(segs[k - 1]))

\* The sentences of the reply that make up the k-th segment
Group(text, segs, k) ==
    SubSeq(RawSentences(text), SentencesBefore(segs, k) + 1,
           SentencesBefore(segs, k + 1))

\* C23: a segment of more than one sentence costs at most 2 lines, and the
\* split is greedy: the cost of a segment plus the cost of the first sentence
\* of the next segment exceeds 2 (cost of a sentence: ceil(length / 50), the
\* sentence taken as the split pattern cuts it from the reply).
C23_LineBudgetAndGreedy ==
    splitMessages # None =>
        LET segs == splitMessages[1]
            text == aiResponse[1]
        IN  /\ \A k \in DOMAIN segs :
                  Len(Group(text, segs, k)) > 1 => SumCost(Group(text, segs, k)) <= 2
            /\ \A k \in DOMAIN segs :
                  k < Len(segs) =>
                      SumCost(Group(text, segs, k))
                          + LineCost(Group(text, segs, k + 1)[1]) > 2

\* A segment of two sentences costing 2 lines followed by another segment
C23_Witness ==
    /\ splitMessages # None
    /\ Len(splitMessages[1]) >= 2
    /\ Len(Group(aiResponse[1], splitMessages[1], 1)) = 2
    /\ SumCost(Group(aiResponse[1], splitMessages[1], 1)) = 2

\* C24: a reply of a single sentence (white space around it or not) yields
\* exactly one segment, and a result of one segment is the reply itself, edge
\* white space included.
C24_SingleSegmentIsReply ==
    splitMessages # None =>
        /\ Len(RawSentences(aiResponse[1])) <= 1 => Len(splitMessages[1]) = 1
        /\ Len(splitMessages[1]) = 1 => splitMessages[1][1] = aiResponse[1]

\* A single sentence of more than 100 characters with a leading blank, kept
\* as it is
C24_Witness ==
    /\ splitMessages # None
    /\ Len(RawSentences(aiResponse[1])) = 1
    /\ Len(aiResponse[1]) > 2 * CharsPerLine
    /\ aiResponse[1][1] = " "
    /\ splitMessages[1] = <<aiResponse[1]>>

\* C25: the response field of a returned turn is a single string (the reply)
\* exactly when the segmenter yields one segment, and otherwise the array of
\* the segments, at least two of them; it is never an array of fewer than two.
C25_ReplyStringOrArray ==
    Returned =>
        /\ reply # None /\ splitMessages # None
        /\ ~reply[1].isArray <=> Len(splitMessages[1]) = 1
        /\ reply[1].isArray =>
              reply[1].parts = splitMessages[1] /\ Len(reply[1].parts) >= 2
        /\ ~reply[1].isArray => reply[1].parts = <<aiResponse[1]>>

\* A returned turn whose reply was cut into two segments
C25_Witness ==
    /\ Returned
    /\ reply # None
    /\ reply[1].isArray
    /\ Len(reply[1].parts) = 2

InFlight(i) == requests[i].status \in {"sent", "answered", "showing"}

\* C26: the client does not serialize turns.  While a turn is in flight a
\* further message can be sent; a request carries the lead state the client
\* holds when it is sent, so requests sent with no response applied in between
\* carry the same one; and a response that arrives replaces the client's lead
\* state with its own, whatever other responses were applied before it.
C26_LastWriteWins ==
    /\ [](((\E i \in DOMAIN requests : InFlight(i)) /\ Len(requests) < MaxSends)
            => ENABLED Send)
    /\ [][/\ Len(requests') > Len(requests) =>
                /\ requests'[Len(requests')].userInfo = userInfo
                /\ userInfo' = userInfo
          /\ \A i \in DOMAIN requests :
                (requests[i].status \in {"answered", "showing"}
                 /\ requests'[i].status = "applied"
                 /\ requests[i].response[1].status = "ok")
                    => userInfo' = requests[i].response[1].userInfo]_vars

\* Two requests sent from the same lead state have both been answered and
\* applied; the client holds the lead state of the second response, which
\* differs from the one the first response carried
C26_Witness ==
    /\ Len(requests) >= 3
    /\ requests[2].status = "applied" /\ requests[3].status = "applied"
    /\ requests[2].userInfo = requests[3].userInfo
    /\ requests[2].response[1].status = "ok"
    /\ requests[3].response[1].status = "ok"
    /\ requests[2].response[1].userInfo # requests[3].response[1].userInfo
    /\ userInfo = requests[3].response[1].userInfo

\* C27: one conversation inserts at most one row into the leads table; later
\* turns update the row named by leadId.
C27_OneLeadPerConversation == Len(leads) <= 1

\* The stages one transition rule of the deployed English handler leads to
\* from a lead state: a case of the switch of saveOrUpdateLead or a case of
\* the switch of updateUserInfo, on any message
OneRuleStagesEn(info) ==
    {stageSpecificUpdate(info, msg, phoneMatchOld(msg), emailMatch(msg)).stage :
        msg \in AllMessages}
    \cup {updateUserInfoEn(info, msg, <<>>).stage : msg \in AllMessages}

ContactFields == {"name", "industry", "email", "phone", "city"}

\* C28: a returned turn of the deployed English handler applies at most one
\* stage transition (the returned stage is the incoming stage or one a single
\* transition rule leads to from it) and writes at most one of name,
\* industry, email, phone, city.
C28_OneTransitionPerTurnEn ==
    (handler = "en" /\ Returned) =>
        /\ userInfo.stage \in {incoming.stage} \cup OneRuleStagesEn(incoming)
        /\ Cardinality({f \in ContactFields : userInfo[f] # incoming[f]}) <= 1

\* C29: in a conversation with the deployed English handler started at
\* greeting in which every message has text, a returned lead state of stage
\* booking or confirmed has name, industry, email, phone and city set to
\* non-empty strings.
C29_QualifiedBeforeBookingEn ==
    (Returned /\ userInfo.stage \in {"booking", "confirmed"}) =>
        \A f \in ContactFields : TruthyStr(userInfo[f])

\* C30: a turn of the deployed English handler on a lead state of stage
\* booking without proposedSlots succeeds and returns a lead state carrying
\* proposedSlots and proposedDateLabel.
C30_BookingTurnProposesSlotsEn ==
    (handler = "en" /\ outcome # "none" /\ incoming.stage = "booking"
        /\ incoming.proposedSlots = None) =>
        /\ Returned
        /\ userInfo.proposedSlots # None
        /\ userInfo.proposedDateLabel # None

\* C31: for every stage a conversation started at greeting reaches, the
\* instructions buildSystemPrompt returns carry the directive of a stage after
\* the preamble, never the bare preamble of the default branch.
C31_ReachableStageHasDirective ==
    instructions # None => instructions[1].directive # "default"

\* The messages of the list that show the reply to request i, in list order
ReplyMessages(i) ==
    SelectSeq(messages, LAMBDA m : ~m.isUser /\ m.request = i)

\* C32: in the English client every message of the list has a string as its
\* text, and a reply the handler split into N segments is shown as N
\* messages, one per segment, in segment order.
C32_EnglishClientShowsSegments ==
    handler = "en" =>
        /\ \A k \in DOMAIN messages : ~messages[k].text.isArray
        /\ \A i \in DOMAIN requests :
              (requests[i].status = "applied" /\ requests[i].response[1].status = "ok")
                  => ReplyMessages(i)
                        = [k \in DOMAIN requests[i].response[1].splitMessages[1] |->
                              Message(StringText(requests[i].response[1].splitMessages[1][k]),
                                      FALSE, i)]

\* C33: in the Portuguese client the segments of one reply are appended in
\* segment order and next to each other: between two messages that show the
\* same reply the list holds only messages of that reply.
C33_SegmentsStayTogetherPt ==
    handler = "pt" =>
        /\ \A a, b \in DOMAIN messages :
              (a < b /\ ~messages[a].isUser /\ ~messages[b].isUser
               /\ messages[a].request # 0 /\ messages[a].request = messages[b].request)
                  => \A k \in a..b :
                        ~messages[k].isUser /\ messages[k].request = messages[a].request
        /\ \A i \in DOMAIN requests :
              (requests[i].status = "applied" /\ requests[i].response[1].status = "ok")
                  => ReplyMessages(i)
                        = [k \in DOMAIN requests[i].response[1].splitMessages[1] |->
                              Message(StringText(requests[i].response[1].splitMessages[1][k]),
                                      FALSE, i)]

\* C34: when the call to the handler fails, the client appends exactly one
\* message, the fixed apology of its locale, leaves its lead state as it is
\* and clears the typing indicator.
C34_FailedTurnApologizes ==
    [][\A i \in DOMAIN requests :
          (requests[i].status = "answered" /\ requests'[i].status = "applied"
           /\ requests[i].response[1].status = "error")
              => /\ messages' = Append(messages,
                                       [text |-> StringText(IF handler = "pt"
                                                            THEN ApologyPt ELSE ApologyEn),
                                        isUser |-> FALSE, isRead |-> FALSE,
                                        request |-> i])
                 /\ userInfo' = userInfo
                 /\ \A j \in DOMAIN requests : j # i => requests'[j] = requests[j]
                 /\ isTyping' = FALSE]_vars

\* The Portuguese client has sent from a stage past the greeting, the call
\* failed, and the last message of the list is the Portuguese apology
C34_Witness ==
    /\ handler = "pt"
    /\ \E i \in DOMAIN requests :
          /\ requests[i].status = "applied"
          /\ requests[i].response[1].status = "error"
          /\ requests[i].userInfo.stage # "greeting"
          /\ userInfo = requests[i].userInfo
          /\ messages[Len(messages)].text = StringText(ApologyPt)
          /\ messages[Len(messages)].request = i
          /\ ~isTyping

\* C35: in the Portuguese chat, once the client's lead state is at stage
\* confirmed the booking modal opens six seconds later with the appointment
\* label: at every moment from then on the modal is open or the timer that
\* opens it is armed.
C35_ConfirmedOpensModalPt ==
    (handler = "pt" /\ userInfo.stage = "confirmed")
        => (bookedTimer # None \/ bookedModal # None)

\* A name that is set, not empty and holds no white space
SingleToken(name_) ==
    /\ name_ # None
    /\ name_[1] # <<>>
    /\ \A i \in DOMAIN name_[1] : ~IsSpace(name_[1][i])

PitchCallTurnRef == handler = "ref" /\ Returned /\ incoming.stage = "pitch_call"

\* C36 as amended: a turn of the reference engine at pitch_call returns stage
\* collecting_email for every message; a name that is a single token becomes
\* the name, a blank and the trimmed message, trimmed as a whole (so a blank
\* message leaves the name as it is); any other name is returned unchanged.
C36_PitchCallAppendsSurname ==
    PitchCallTurnRef =>
        /\ userInfo.stage = "collecting_email"
        /\ userInfo.name = IF SingleToken(incoming.name)
                           THEN Some(trim(incoming.name[1] \o <<" ">> \o trim(message)))
                           ELSE incoming.name

\* A turn at pitch_call whose message added a second token to a single-token
\* name
C36_Witness ==
    /\ PitchCallTurnRef
    /\ SingleToken(incoming.name)
    /\ trim(message) # <<>>
    /\ userInfo.name = Some(incoming.name[1] \o <<" ">> \o trim(message))
    /\ userInfo.name # incoming.name

\* C36: a turn of the reference engine at pitch_call returns stage
\* collecting_email for every message; a name that is a single token becomes
\* the name, a blank and the trimmed message; any other name is returned
\* unchanged.
C36_PitchCallAppendsSurnameLiteral ==
    PitchCallTurnRef =>
        /\ userInfo.stage = "collecting_email"
        /\ userInfo.name = IF SingleToken(incoming.name)
                           THEN Some(incoming.name[1] \o <<" ">> \o trim(message))
                           ELSE incoming.name

\* The affirmative keywords of a locale, as the claim lists them
AffirmativeKeywords(h) ==
    IF h = "pt"
    THEN { <<"s", "i", "m">>, <<"c", "l", "a", "r", "o">>, <<"o", "k">> }
    ELSE { <<"m", "a", "k", "e", "s", " ", "s", "e", "n", "s", "e">>,
           <<"p", "e", "r", "f", "e", "c", "t">>, <<"g", "o", "t", " ", "i", "t">>,
           <<"y", "e", "s">>, <<"s", "u", "r", "e">>, <<"o", "k">> }

ExplainingTurn ==
    handler \in {"ref", "pt"} /\ Returned /\ incoming.stage = "explaining"

\* C37: a turn at explaining (reference engine, Portuguese handler) advances
\* to the next stage if and only if the lower-cased message contains one of the
\* locale's affirmative keywords; for every other message the returned state
\* is the incoming state.  It holds for every lead state at explaining, hence
\* for any number of turns in a row.
C37_ExplainingAdvancesOnKeyword ==
    ExplainingTurn =>
        IF \E k \in AffirmativeKeywords(handler) : includes(toLowerCase(message), k)
        THEN userInfo.stage = (IF handler = "pt" THEN "collecting_phone" ELSE "pitch_call")
        ELSE userInfo = incoming

\* The reference engine advanced on a message that holds a keyword inside a
\* longer word
C37_Witness ==
    /\ ExplainingTurn
    /\ handler = "ref"
    /\ message = Book
    /\ userInfo.stage = "pitch_call"

FieldNames ==
    {"name", "industry", "email", "phone", "city", "proposedSlots",
     "proposedDateLabel", "appointmentLabel", "leadId"}

\* The fields the claim lets a turn at the stage of info change
OwnedFields(info) ==
    CASE info.stage \in {"asking_name", "pitch_call"} -> {"name"}
      [] info.stage = "industry" -> {"industry"}
      [] info.stage = "collecting_email" -> {"email"}
      [] info.stage = "collecting_phone" -> {"phone"}
      [] info.stage = "collecting_city" -> {"city"}
      [] info.stage = "booking" ->
            {"appointmentLabel"}
                \cup (IF info.proposedSlots = None THEN {"proposedSlots"} ELSE {})
                \cup (IF info.proposedDateLabel = None THEN {"proposedDateLabel"} ELSE {})
      [] OTHER -> {}

\* The same, with the name owned by collecting_name too and the date label
\* going with the slots
OwnedFieldsAmended(info) ==
    CASE info.stage = "collecting_name" -> {"name"}
      [] info.stage = "booking" ->
            {"appointmentLabel"}
                \cup (IF info.proposedSlots = None
                      THEN {"proposedSlots", "proposedDateLabel"} ELSE {})
      [] OTHER -> OwnedFields(info)

MorningLabels ==
    { <<"9", "a", "m">>, <<"9", ":", "3", "0", "a", "m">>, <<"1", "0", "a", "m">>,
      <<"1", "0", ":", "3", "0", "a", "m">>, <<"1", "1", "a", "m">> }

AfternoonLabels ==
    { <<"2", "p", "m">>, <<"2", ":", "3", "0", "p", "m">>, <<"3", "p", "m">>,
      <<"3", ":", "3", "0", "p", "m">>, <<"4", "p", "m">>,
      <<"4", ":", "3", "0", "p", "m">>, <<"5", "p", "m">> }

\* C39: the proposedSlots a conversation holds are a pair, a morning label
\* followed by an afternoon label; no morning label holds an afternoon label
\* or is held by one, so the two labels differ and a message that is exactly
\* one of them names that one and not the other.
C39_SlotsMorningThenAfternoon ==
    /\ \A m \in MorningLabels, a \in AfternoonLabels :
          ~includes(toLowerCase(m), toLowerCase(a)) /\ ~includes(toLowerCase(a), toLowerCase(m))
    /\ userInfo.proposedSlots # None =>
          LET slots == userInfo.proposedSlots[1]
          IN  /\ Len(slots) = 2
              /\ slots[1] \in MorningLabels
              /\ slots[2] \in AfternoonLabels
              /\ \A i, j \in 1..2 :
                    includes(toLowerCase(slots[i]), toLowerCase(slots[j])) <=> i = j
              /\ \A i \in 1..2 : findSlot(slots, toLowerCase(slots[i])) = Some(slots[i])

\* The reference engine proposed a pair and the visitor answered with the
\* afternoon label alone: that slot was booked
C39_Witness ==
    /\ handler = "ref" /\ Returned /\ incoming.stage = "booking"
    /\ incoming.proposedSlots # None
    /\ message = incoming.proposedSlots[1][2]
    /\ userInfo.stage = "confirmed"
    /\ userInfo.appointmentLabel
          = Some(userInfo.proposedDateLabel[1] \o At \o incoming.proposedSlots[1][2])

=============================================================================
